---------------------------- MODULE Spec2Model ----------------------------
(***************************************************************************)
(* Retrieval store and query-answering engine of the receipt backend:      *)
(*   backend/app/vector_store.py  (class VectorStore)                      *)
(*   backend/app/main.py          (summarize_answer and the endpoints)     *)
(*                                                                         *)
(* Conventions of the model                                                *)
(*  - A text is the sequence of its whitespace-separated, lower-cased      *)
(*    words.  ShortWords are the words in which the vectorizer's token     *)
(*    pattern (two or more word characters) finds no token.                *)
(*  - A Python value whose type matters is a record [t, s, n]: t is the    *)
(*    type tag, s the string payload, n the numeric payload.               *)
(*  - Money is counted in cents; a calendar date is its day number.        *)
(*  - tf-idf weights are fixed-point with one decimal (idf * 10); a cosine *)
(*    score is kept as 1000 * cos^2, rounded down.  Weights are never      *)
(*    negative, so the order of the scores is the order of the cosines;    *)
(*    the l2 normalisation of the rows cancels in the cosine.              *)
(***************************************************************************)
EXTENDS Integers, Sequences, FiniteSets, TLC

(***************************************************************************)
(* Bounds of the model.                                                    *)
(***************************************************************************)
MaxIds == 2

IdNames == <<"a", "b", "c", "d">>
Ids == {IdNames[i] : i \in 1..MaxIds}

(***************************************************************************)
(* Python values.                                                          *)
(***************************************************************************)
PyNone == [t |-> "none", s |-> "", n |-> 0]
PyStr(x) == [t |-> "str", s |-> x, n |-> 0]
PyFloat(c) == [t |-> "float", s |-> "", n |-> c]
\* a non-string object (a date object, a number) whose str() is x
PyObj(x) == [t |-> "obj", s |-> x, n |-> 0]
\* an object whose __str__ raises
PyUnprintable == [t |-> "unprintable", s |-> "", n |-> 0]

Truthy(v) == ~(v.t = "none" \/ (v.t = "str" /\ v.s = ""))

Range(s) == {s[i] : i \in 1..Len(s)}
Min(a, b) == IF a <= b THEN a ELSE b
Max(a, b) == IF a >= b THEN a ELSE b

(***************************************************************************)
(* Words.  TermOrder lists every word that can become a term, in the       *)
(* alphabetical order in which the vectorizer numbers its vocabulary.      *)
(***************************************************************************)
ShortWords == {"2%", "x", "i", "7", "1", "5"}
StopWords == {"the", "where", "from", "to", "on", "last", "between", "and", "or"}
TermOrder == <<"bread", "chocolate", "milk", "the">>

(***************************************************************************)
(* The inputs the operations are driven with.                              *)
(***************************************************************************)
ValidIso == {"2024-01-01", "2024-01-05", "2024-01-10"}
IsoShaped == ValidIso \cup {"2024-13-01"}

Meta(text, merchant, date, price) ==
    [text |-> text, merchant |-> merchant, date |-> date, price |-> price]

Metadatas ==
    { Meta(<<"milk", "2%">>, PyStr("M1"), PyStr("2024-01-01"), PyFloat(1000)),
      Meta(<<"milk", "chocolate">>, PyStr("M2"), PyObj("2024-01-10"), PyFloat(500)),
      Meta(<<"bread">>, PyNone, PyStr("soon"), PyNone),
      Meta(<<"the">>, PyStr("M3"), PyUnprintable, PyStr("n/a")) }

(***************************************************************************)
(* dict: insertion-ordered; assigning an existing key keeps its place.     *)
(***************************************************************************)
DictKeys(d) == [i \in 1..Len(d) |-> d[i].id]
DictHas(d, k) == \E i \in 1..Len(d) : d[i].id = k
DictGet(d, k) == d[CHOOSE i \in 1..Len(d) : d[i].id = k]
\* a dict that keeps every assignment as an entry of its own
DictSetAppending(d, k, v) == Append(d, v)

DictSet(d, k, v) ==
    IF DictHas(d, k)
    THEN [i \in 1..Len(d) |-> IF d[i].id = k THEN v ELSE d[i]]
    ELSE Append(d, v)

(***************************************************************************)
(* json.dumps / json.loads of one record {"id": ..., "metadata": {...}}.   *)
(***************************************************************************)
JsonOfValue(v) ==
    CASE v.t = "none" -> [j |-> "null", s |-> "", n |-> 0]
      [] v.t = "str" -> [j |-> "string", s |-> v.s, n |-> 0]
      [] v.t = "float" -> [j |-> "number", s |-> "", n |-> v.n]

ValueOfJson(x) ==
    CASE x.j = "null" -> PyNone
      [] x.j = "string" -> PyStr(x.s)
      [] x.j = "number" -> PyFloat(x.n)

\* an encoder that writes every date as null
JsonDumpsDateless(obj) ==
    [id |-> obj.id,
     text |-> obj.metadata.text,
     merchant |-> JsonOfValue(obj.metadata.merchant),
     date |-> JsonOfValue(PyNone),
     price |-> JsonOfValue(obj.metadata.price)]

JsonDumps(obj) ==
    [id |-> obj.id,
     text |-> obj.metadata.text,
     merchant |-> JsonOfValue(obj.metadata.merchant),
     date |-> JsonOfValue(obj.metadata.date),
     price |-> JsonOfValue(obj.metadata.price)]

JsonLoads(line) ==
    [id |-> line.id,
     metadata |-> Meta(line.text, ValueOfJson(line.merchant),
                       ValueOfJson(line.date), ValueOfJson(line.price))]

(***************************************************************************)
(* TfidfVectorizer.                                                        *)
(***************************************************************************)
\* smooth idf, ln((1 + n) / (1 + df)) + 1, times ten and rounded
IdfTable ==
    <<  <<10>>,
        <<14, 10>>,
        <<17, 13, 10>>,
        <<19, 15, 12, 10>>,
        <<21, 17, 14, 12, 10>>,
        <<23, 18, 16, 13, 12, 10>>,
        <<24, 20, 17, 15, 13, 11, 10>>,
        <<25, 21, 18, 16, 14, 13, 11, 10>>,
        <<26, 22, 19, 17, 15, 14, 12, 11, 10>>,
        <<27, 23, 20, 18, 16, 15, 13, 12, 11, 10>>,
        <<28, 24, 21, 19, 17, 15, 14, 13, 12, 11, 10>>,
        <<29, 25, 22, 20, 18, 16, 15, 14, 13, 12, 11, 10>>,
        <<29, 25, 23, 20, 18, 17, 16, 14, 13, 12, 12, 11, 10>> >>
Idf(n, df) == IdfTable[n][df]

\* build_analyzer: tokens of two or more word characters, stop words removed
Analyze(doc, stop) ==
    SelectSeq(doc, LAMBDA w : w \notin ShortWords /\ (stop => w \notin StopWords))

Tf(terms, t) == Cardinality({i \in 1..Len(terms) : terms[i] = t})

NoVectorizer == [state |-> "none", stop |-> FALSE, vocabulary |-> <<>>, idf |-> <<>>]
\* TfidfVectorizer(...) before any fit
NewVectorizer(stop) ==
    [state |-> "unfitted", stop |-> stop, vocabulary |-> <<>>, idf |-> <<>>]

Vocabulary(docs, stop) ==
    SelectSeq(TermOrder,
              LAMBDA t : \E i \in 1..Len(docs) : t \in Range(Analyze(docs[i], stop)))

\* fit: raises ValueError("empty vocabulary") when no document has a term
FitRaises(docs, stop) == Vocabulary(docs, stop) = <<>>

Fit(docs, stop) ==
    LET vocab == Vocabulary(docs, stop)
        df(t) == Cardinality({i \in 1..Len(docs) : t \in Range(Analyze(docs[i], stop))})
    IN  [state |-> "fitted", stop |-> stop, vocabulary |-> vocab,
         idf |-> [j \in 1..Len(vocab) |-> Idf(Len(docs), df(vocab[j]))]]

\* transform of one document: its tf-idf row over the fitted vocabulary
Transform(vz, doc) ==
    LET terms == Analyze(doc, vz.stop)
    IN  [j \in 1..Len(vz.vocabulary) |-> Tf(terms, vz.vocabulary[j]) * vz.idf[j]]

RECURSIVE SumSeq(_)
SumSeq(s) == IF s = <<>> THEN 0 ELSE s[1] + SumSeq(Tail(s))

Dot(u, v) == SumSeq([j \in 1..Len(u) |-> u[j] * v[j]])
Norm2(u) == Dot(u, u)

\* 1000 * cos^2 of two rows of non-zero norm
Cos2(u, v) == (1000 * Dot(u, v) * Dot(u, v)) \div (Norm2(u) * Norm2(v))

(***************************************************************************)
(* VectorStore.  A store value S holds the object's fields and the         *)
(* snapshot file at self.path.  Each method is an operator from the store  *)
(* before the call to the store after it; a method that can raise has a    *)
(* companion predicate telling when it does.                               *)
(***************************************************************************)
NoMatrix == [present |-> FALSE, rows |-> <<>>]
NoFile == [exists |-> FALSE, lines |-> <<>>]

EmptyStore(f) ==
    [vectors |-> <<>>, texts |-> <<>>, ids |-> <<>>,
     vectorizer |-> NoVectorizer, matrix |-> NoMatrix, file |-> f]

TextsOf(d) == [i \in 1..Len(d) |-> d[i].metadata.text]

_load(S) ==
    LET objs == [i \in 1..Len(S.file.lines) |-> JsonLoads(S.file.lines[i])]
        RECURSIVE Fill(_, _)
        Fill(d, i) == IF i > Len(objs) THEN d
                      ELSE Fill(DictSet(d, objs[i].id, objs[i]), i + 1)
    IN  [S EXCEPT !.vectors = Fill(<<>>, 1),
                  !.ids = [i \in 1..Len(objs) |-> objs[i].id],
                  !.texts = [i \in 1..Len(objs) |-> objs[i].metadata.text]]

\* a snapshot opened for appending instead of writing
_saveAppending(S) ==
    [S EXCEPT !.file = [exists |-> TRUE,
                        lines |-> S.file.lines \o
                                  [i \in 1..Len(S.vectors) |-> JsonDumps(S.vectors[i])]]]

_save(S) ==
    [S EXCEPT !.file = [exists |-> TRUE,
                        lines |-> [i \in 1..Len(S.vectors) |-> JsonDumps(S.vectors[i])]]]

\* fit_transform raises on a corpus without any term
_rebuildRaises(S) == S.texts # <<>> /\ FitRaises(S.texts, TRUE)

\* when fit_transform raises, line 44 has already replaced self.vectorizer by
\* an unfitted one and self.matrix keeps its old value
_rebuild(S) ==
    IF S.texts = <<>>
    THEN [S EXCEPT !.vectorizer = NoVectorizer, !.matrix = NoMatrix]
    ELSE IF FitRaises(S.texts, TRUE)
    THEN [S EXCEPT !.vectorizer = NewVectorizer(TRUE)]
    ELSE LET vz == Fit(S.texts, TRUE)
         IN  [S EXCEPT !.vectorizer = vz,
                       !.matrix = [present |-> TRUE,
                                   rows |-> [i \in 1..Len(S.texts) |->
                                               Transform(vz, S.texts[i])]]]

\* __init__
ConstructRaises(f) == f.exists /\ _rebuildRaises(_load(EmptyStore(f)))
Construct(f) == IF f.exists THEN _rebuild(_load(EmptyStore(f))) ELSE EmptyStore(f)

reset(S) == EmptyStore(NoFile)

count(S) == Len(S.vectors)

\* lines 62-67: a date that is neither None nor a str is replaced by its str(),
\* or by None when str() raises
NormalizeDate(metadata) ==
    LET date_val == metadata.date
    IN  IF date_val.t # "none" /\ date_val.t # "str"
        THEN [metadata EXCEPT !.date = IF date_val.t = "unprintable" THEN PyNone
                                       ELSE PyStr(date_val.s)]
        ELSE metadata

\* lines 69-71
Assign(S, id, metadata) ==
    LET v == DictSet(S.vectors, id, [id |-> id, metadata |-> NormalizeDate(metadata)])
    IN  [S EXCEPT !.vectors = v, !.ids = DictKeys(v), !.texts = TextsOf(v)]

upsertRaises(S, id, metadata) == _rebuildRaises(Assign(S, id, metadata))

\* _save is not reached when _rebuild raises
upsert(S, id, metadata) ==
    LET A == Assign(S, id, metadata)
    IN  IF _rebuildRaises(A) THEN _rebuild(A) ELSE _save(_rebuild(A))

(***************************************************************************)
(* VectorStore.query.  The result is [outcome, matches].                   *)
(***************************************************************************)
\* lines 85-93
Sim(q_vec, doc_vec) ==
    IF Norm2(q_vec) = 0 \/ Norm2(doc_vec) = 0 THEN 0 ELSE Cos2(q_vec, doc_vec)

\* list.sort(key=score, reverse=True): stable, equal scores keep their order
RECURSIVE InsertDesc(_, _)
InsertDesc(sorted, x) ==
    IF sorted = <<>> THEN <<x>>
    ELSE IF sorted[1].score < x.score THEN <<x>> \o sorted
    ELSE <<sorted[1]>> \o InsertDesc(Tail(sorted), x)

RECURSIVE SortDesc(_)
SortDesc(s) ==
    IF s = <<>> THEN <<>>
    ELSE InsertDesc(SortDesc(SubSeq(s, 1, Len(s) - 1)), s[Len(s)])

\* s[:k]
SliceTo(s, k) ==
    IF k >= 0 THEN SubSeq(s, 1, Min(k, Len(s)))
    ELSE SubSeq(s, 1, Max(Len(s) + k, 0))

Returned(matches) == [outcome |-> "ok", matches |-> matches]
Raised(e) == [outcome |-> e, matches |-> <<>>]

query(S, query_text, k) ==
    IF S.vectorizer.state = "none" \/ ~S.matrix.present \/ S.texts = <<>>
    THEN Returned(<<>>)
    ELSE IF S.vectorizer.state # "fitted" THEN Raised("NotFittedError")
    ELSE LET q_vec == Transform(S.vectorizer, query_text)
             rows == S.matrix.rows
         IN  IF \E i \in 1..Len(rows) : Len(rows[i]) # Len(q_vec)
             THEN Raised("ValueError")
             ELSE IF Len(S.ids) > Len(rows) THEN Raised("IndexError")
             ELSE IF \E i \in 1..Len(S.ids) : ~DictHas(S.vectors, S.ids[i])
             THEN Raised("KeyError")
             ELSE LET scored ==
                          [idx \in 1..Len(S.ids) |->
                              [id |-> S.ids[idx],
                               score |-> Sim(q_vec, rows[idx]),
                               metadata |-> DictGet(S.vectors, S.ids[idx]).metadata]]
                  IN  Returned(SliceTo(SortDesc(scored), k))

(***************************************************************************)
(* main.py: dates.  An optional date is [ok, day].                         *)
(***************************************************************************)
NoDay == [ok |-> FALSE, day |-> 0]
Day(n) == [ok |-> TRUE, day |-> n]

DayOf(s) ==
    CASE s = "2024-01-01" -> 1
      [] s = "2024-01-05" -> 5
      [] s = "2024-01-10" -> 10

\* datetime.strptime(s, "%Y-%m-%d").date(), NoDay when it raises
Strptime(s) == IF s \in ValidIso THEN Day(DayOf(s)) ELSE NoDay

parse_date(v) == IF v.t # "str" \/ v.s = "" THEN NoDay ELSE Strptime(v.s)

\* positions of the question at which the words of pat follow one another
Occurs(q, pat, i) ==
    /\ i + Len(pat) - 1 <= Len(q)
    /\ \A j \in 1..Len(pat) : q[i + j - 1] = pat[j]

Contains(q, pat) == \E i \in 1..Len(q) : Occurs(q, pat, i)

First(S) == CHOOSE i \in S : \A j \in S : i <= j

(***************************************************************************)
(* main.py: prose dates.  A question is a sequence of words; \d{1,2} is a  *)
(* word of DayTokens, \d{4} a word of YearTokens, \w+ a word without "-"   *)
(* or "%".  The calendar is the proleptic Gregorian one of datetime.date,  *)
(* with 2024-01-01 as day 1.                                               *)
(***************************************************************************)
DayTokens == {"1", "5", "7", "29", "31"}
YearTokens == {"1900", "2023", "2024"}

IntOf(w) ==
    CASE w = "1" -> 1 [] w = "5" -> 5 [] w = "7" -> 7 [] w = "29" -> 29
      [] w = "31" -> 31
      [] w = "1900" -> 1900 [] w = "2023" -> 2023 [] w = "2024" -> 2024

MonthNames ==
    <<"january", "february", "march", "april", "may", "june", "july", "august",
      "september", "october", "november", "december">>

IsMonth(w) == w \in Range(MonthNames)
MonthOf(w) == CHOOSE m \in 1..12 : MonthNames[m] = w

IsWord(w) == w \notin IsoShaped \cup {"2%"}

IsLeap(y) == y % 4 = 0 /\ (y % 100 # 0 \/ y % 400 = 0)

DaysInMonth(y, m) ==
    IF m = 2 THEN (IF IsLeap(y) THEN 29 ELSE 28)
    ELSE IF m \in {4, 6, 9, 11} THEN 30 ELSE 31

\* date.toordinal()
ToOrdinal(y, m, d) ==
    365 * (y - 1) + ((y - 1) \div 4) - ((y - 1) \div 100) + ((y - 1) \div 400)
        + SumSeq([k \in 1..(m - 1) |-> DaysInMonth(y, k)]) + d

DayNumber(y, m, d) == ToOrdinal(y, m, d) - ToOrdinal(2023, 12, 31)

\* datetime.utcnow().year
YearOf(today) ==
    CHOOSE y \in 2023..2025 : today \in DayNumber(y, 1, 1)..DayNumber(y, 12, 31)

NoDate == [ok |-> FALSE, year |-> 0, month |-> 0, day |-> 0]

\* datetime.strptime(g, "%d %B %Y").date() of the words g, NoDate when it
\* raises
StrptimeDBY(g) ==
    IF Len(g) = 3 /\ g[1] \in DayTokens /\ IsMonth(g[2]) /\ g[3] \in YearTokens
          /\ IntOf(g[1]) <= DaysInMonth(IntOf(g[3]), MonthOf(g[2]))
    THEN [ok |-> TRUE, year |-> IntOf(g[3]), month |-> MonthOf(g[2]),
          day |-> IntOf(g[1])]
    ELSE NoDate

\* datetime.strptime(g, "%d %B").date(): the year is 1900
StrptimeDB(g) ==
    IF Len(g) = 2 /\ g[1] \in DayTokens /\ IsMonth(g[2])
          /\ IntOf(g[1]) <= DaysInMonth(1900, MonthOf(g[2]))
    THEN [ok |-> TRUE, year |-> 1900, month |-> MonthOf(g[2]), day |-> IntOf(g[1])]
    ELSE NoDate

\* lines 124-140: the first YYYY-MM-DD word when it parses, else the first
\* "D MONTH [YEAR]" with the current year for a missing one
\* line 139: strptime of day, month and year in "%d %B %Y"
DateOf(day, month, year) ==
    IF day <= DaysInMonth(year, month) THEN Day(DayNumber(year, month, day))
    ELSE NoDay

\* lines 131-140, the match being at the words from i on
ProseDate(q, i, today) ==
    DateOf(IntOf(q[i]), MonthOf(q[i + 1]),
           IF i + 2 <= Len(q) /\ q[i + 2] \in YearTokens
           THEN IntOf(q[i + 2]) ELSE YearOf(today))

\* a, or b when a is None
OrElse(a, b) == IF a.ok THEN a ELSE b

extract_explicit_date(q, today) ==
    LET hits == {i \in 1..Len(q) : q[i] \in IsoShaped}
        prose == {i \in 1..Len(q) :
                    i + 1 <= Len(q) /\ q[i] \in DayTokens /\ IsMonth(q[i + 1])}
    IN  OrElse(IF hits = {} THEN NoDay ELSE Strptime(q[First(hits)]),
               IF prose = {} THEN NoDay ELSE ProseDate(q, First(prose), today))

NoRange == [ok |-> FALSE, start |-> 0, end |-> 0]

\* the words of the group (\d{1,2}\s+\w+(?:\s+\d{4})?) that starts at j; <<>>
\* when there is none
GroupAt(q, j) ==
    IF j + 1 <= Len(q) /\ q[j] \in DayTokens /\ IsWord(q[j + 1])
    THEN IF j + 2 <= Len(q) /\ q[j + 2] \in YearTokens
         THEN SubSeq(q, j, j + 2) ELSE SubSeq(q, j, j + 1)
    ELSE <<>>

\* line 157: between (group) and (group), found at i
BetweenAt(q, i) ==
    LET g1 == GroupAt(q, i + 1)
        a == i + 1 + Len(g1)
    IN  /\ q[i] = "between" /\ g1 # <<>>
        /\ a <= Len(q) /\ q[a] = "and"
        /\ GroupAt(q, a + 1) # <<>>

\* lines 160-161: the format is chosen by a \d{4} in the group
StrptimeGroup(g) ==
    IF \E n \in 1..Len(g) : g[n] \in YearTokens THEN StrptimeDBY(g) ELSE StrptimeDB(g)

\* lines 162-165: the year 1900 is taken for a missing year
ReplaceYear1900(d, today) ==
    IF d.year = 1900 THEN [d EXCEPT !.year = YearOf(today)] ELSE d

\* lines 151-153: the days of d1 and d2 ([ok, day]), None when one of
\* them did not parse
RangeOfDays(d1, d2) ==
    IF d1.ok /\ d2.ok THEN [ok |-> TRUE, start |-> d1.day, end |-> d2.day]
    ELSE NoRange

\* lines 148-155
FromTo(q) ==
    LET hits == {i \in 1..Len(q) :
                    /\ i + 3 <= Len(q)
                    /\ q[i] = "from" /\ q[i + 1] \in IsoShaped
                    /\ q[i + 2] = "to" /\ q[i + 3] \in IsoShaped}
    IN  IF hits = {} THEN NoRange
        ELSE RangeOfDays(Strptime(q[First(hits) + 1]), Strptime(q[First(hits) + 3]))

\* a parsed date ([ok, year, month, day]) as [ok, day]
AsDay(d) == IF d.ok THEN Day(DayNumber(d.year, d.month, d.day)) ELSE NoDay

\* lines 160-165 for one group
GroupDate(g, today) == AsDay(ReplaceYear1900(StrptimeGroup(g), today))

\* lines 159-166, the match being at i, its first group being g1
BetweenDates(q, i, g1, today) ==
    RangeOfDays(GroupDate(g1, today),
                GroupDate(GroupAt(q, i + 2 + Len(g1)), today))

\* lines 157-168
Between(q, today) ==
    LET hits == {i \in 1..Len(q) : BetweenAt(q, i)}
    IN  IF hits = {} THEN NoRange
        ELSE BetweenDates(q, First(hits), GroupAt(q, First(hits) + 1), today)

extract_date_range(q, today) == OrElse(FromTo(q), Between(q, today))

\* lines 229-230: start = end = explicit_date
SingleDay(d) == RangeOfDays(d, d)

\* lines 231-236
Relative(q, today) ==
    IF Contains(q, <<"yesterday">>)
    THEN [ok |-> TRUE, start |-> today - 1, end |-> today - 1]
    ELSE IF Contains(q, <<"last", "7", "day">>) \/ Contains(q, <<"last", "7", "days">>)
    THEN [ok |-> TRUE, start |-> today - 7, end |-> today]
    ELSE NoRange

\* lines 225-236
DateFilter(q, today) ==
    OrElse(extract_date_range(q, today),
           OrElse(SingleDay(extract_explicit_date(q, today)), Relative(q, today)))

\* a date check that leaves the last day of the range out
filter_matchesBeforeEnd(ms, f) ==
    SelectSeq(ms, LAMBDA m : LET d == parse_date(m.metadata.date)
                             IN  d.ok /\ f.start <= d.day /\ d.day < f.end)

\* lines 194-201 with the date_check of line 240
filter_matches(ms, f) ==
    SelectSeq(ms, LAMBDA m : LET d == parse_date(m.metadata.date)
                             IN  d.ok /\ f.start <= d.day /\ d.day <= f.end)

\* lines 239-242
ApplyFilter(matches, f) == IF f.ok THEN filter_matches(matches, f) ELSE matches

Filtered(q, matches, today) == ApplyFilter(matches, DateFilter(q, today))

(***************************************************************************)
(* main.py: the item of "where did i buy <ITEM>" (lines 188-191).  The     *)
(* lazy group takes the words after "buy" up to the first later "from" or  *)
(* "on", or to the end of the question.                                    *)
(***************************************************************************)
WhereDidIBuy == <<"where", "did", "i", "buy">>

ItemName(q) ==
    LET hits == {i \in 1..Len(q) : Occurs(q, WhereDidIBuy, i) /\ i + 4 <= Len(q)}
    IN  IF hits = {} THEN <<>>
        ELSE LET b == First(hits) + 4
                 stops == {j \in (b + 1)..Len(q) : q[j] \in {"from", "on"}}
                 e == IF stops = {} THEN Len(q) ELSE First(stops) - 1
             IN  SubSeq(q, b, e)

(***************************************************************************)
(* main.py: best_merchant_by_similarity (lines 204-222) and                *)
(* cosine_similarity (lines 100-108).                                      *)
(***************************************************************************)
LowConfidence == 40

\* a row divided by its norm is NaN throughout when the norm is zero, and so
\* is every product with it
IsNaN(query_vec, item_vec) == Norm2(query_vec) = 0 \/ Norm2(item_vec) = 0

\* u is more similar to q than v is; neither similarity is NaN
Closer(q, u, v) ==
    Dot(q, u) * Dot(q, u) * Norm2(v) > Dot(q, v) * Dot(q, v) * Norm2(u)

\* numpy argmax: the first NaN when there is one, else the first maximum
ArgMax(query_vec, item_vecs) ==
    LET n == Len(item_vecs)
        nans == {i \in 1..n : IsNaN(query_vec, item_vecs[i])}
        best == {i \in 1..n :
                    /\ \A j \in 1..n : ~Closer(query_vec, item_vecs[j], item_vecs[i])}
    IN  IF nans # {} THEN First(nans) ELSE First(best)

\* similarities[best_idx] < 0.2, which is false of NaN
BelowThreshold(query_vec, item_vec) ==
    /\ ~IsNaN(query_vec, item_vec)
    /\ Cos2(query_vec, item_vec) < LowConfidence

Candidates(ms) == SelectSeq(ms, LAMBDA m : Truthy(m.metadata.merchant))

LocalDocs(item_name, ms) == TextsOf(Candidates(ms)) \o <<item_name>>

best_merchantRaises(item_name, ms) ==
    Candidates(ms) # <<>> /\ FitRaises(LocalDocs(item_name, ms), FALSE)

NoMerchant == [found |-> FALSE, text |-> <<>>, merchant |-> ""]

\* lines 219-222
BestOrNone(candidates, query_vec, item_vecs, best_idx) ==
    IF BelowThreshold(query_vec, item_vecs[best_idx]) THEN NoMerchant
    ELSE [found |-> TRUE, text |-> candidates[best_idx].metadata.text,
          merchant |-> candidates[best_idx].metadata.merchant.s]

\* lines 217-222
BestBySimilarity(candidates, query_vec, item_vecs) ==
    BestOrNone(candidates, query_vec, item_vecs, ArgMax(query_vec, item_vecs))

\* lines 212-222, vz being the vectorizer fit on texts + [item_name]
BestWith(candidates, item_name, vz) ==
    BestBySimilarity(candidates, Transform(vz, item_name),
                     [i \in 1..Len(candidates) |->
                         Transform(vz, candidates[i].metadata.text)])

best_merchant_by_similarity(item_name, ms) ==
    IF Candidates(ms) = <<>> THEN NoMerchant
    ELSE BestWith(Candidates(ms), item_name, Fit(LocalDocs(item_name, ms), FALSE))

(***************************************************************************)
(* main.py: summarize_answer (lines 173-268).  An answer is a record; kind *)
(* tells which sentence it is.                                             *)
(***************************************************************************)
Answer(kind) ==
    [kind |-> kind, text |-> <<>>, merchant |-> "", item |-> <<>>,
     amount |-> <<0, 0>>, texts |-> <<>>]

\* lines 181-185
safe_price(val) == IF val.t = "float" THEN val.n ELSE 0

\* f"{total:.2f}"
Format2f(cents) == <<cents \div 100, cents % 100>>

IsTotalQuestion(q) == Contains(q, <<"total">>) /\ Contains(q, <<"expense">>)

\* the texts of the listing, last match first
ListingReversed(filtered) ==
    [i \in 1..Len(filtered) |-> filtered[Len(filtered) + 1 - i].metadata.text]

\* line 267: [m["metadata"]["text"] for m in filtered]
Listing(filtered) == TextsOf(filtered)

summarize_answerRaises(q, matches, today) ==
    /\ matches # <<>>
    /\ ItemName(q) # <<>>
    /\ best_merchantRaises(ItemName(q), Filtered(q, matches, today))

\* lines 247-250, bm being what best_merchant_by_similarity returned
WhereAnswer(item_name, bm) ==
    IF bm.found
    THEN [Answer("bought_from") EXCEPT !.text = bm.text, !.merchant = bm.merchant]
    ELSE [Answer("no_purchases_of") EXCEPT !.item = item_name]

\* lines 253-257
ItemMatchesAnswer(item_name, item_matches) ==
    IF item_matches # <<>>
    THEN [Answer("bought_in_range") EXCEPT !.texts = item_matches]
    ELSE [Answer("no_purchases_of") EXCEPT !.item = item_name]

\* lines 244-268, with the locals item_name and filtered
AnswerFor(q, item_name, filtered) ==
    IF item_name # <<>>
    THEN IF Contains(q, <<"where">>)
         THEN WhereAnswer(item_name, best_merchant_by_similarity(item_name, filtered))
         ELSE ItemMatchesAnswer(
                  item_name,
                  TextsOf(SelectSeq(filtered,
                                    LAMBDA m : Contains(m.metadata.text, item_name))))
    ELSE IF IsTotalQuestion(q)
    THEN [Answer("total") EXCEPT
             !.amount = Format2f(SumSeq([i \in 1..Len(filtered) |->
                                           safe_price(filtered[i].metadata.price)]))]
    ELSE IF filtered # <<>>
    THEN [Answer("listing") EXCEPT !.texts = Listing(filtered)]
    ELSE Answer("no_purchases")

summarize_answer(q, matches, today) ==
    IF matches = <<>> THEN Answer("no_matching_items")
    ELSE AnswerFor(q, ItemName(q), Filtered(q, matches, today))

(***************************************************************************)
(* main.py: the /qa endpoint (lines 273-285).  The result is the matches   *)
(* query returned and the answer; an exception of query or of              *)
(* summarize_answer becomes the "Vector search failed" answer.             *)
(***************************************************************************)
QaK == 10

\* /qa asking query for as many matches as the store has records
\* lines 275-285, r being what vdb.query returned or raised
qaWith(r, q, today) ==
    IF r.outcome # "ok" \/ summarize_answerRaises(q, r.matches, today)
    THEN [matches |-> <<>>, answer |-> Answer("vector_search_failed")]
    ELSE [matches |-> r.matches, answer |-> summarize_answer(q, r.matches, today)]

\* /qa asking query for as many matches as the store has records
qaWholeStore(S, q, today) == qaWith(query(S, q, count(S)), q, today)

qa(S, q, today) == qaWith(query(S, q, QaK), q, today)

(***************************************************************************)
(* State.  vectors .. matrix are the fields of the store object vdb        *)
(* (main.py line 24), file is the snapshot at VSTORE_PATH.  given is the   *)
(* match list handed to summarize_answer.  last describes the most recent  *)
(* call and what it returned; sinceReset is history: the ids upserted      *)
(* since the last reset, or since the construction together with the ids   *)
(* the construction read from the snapshot.  thr holds the two request     *)
(* threads of the concurrent runs: the line each has reached (pc, qpc) and *)
(* its arguments and locals.                                               *)
(***************************************************************************)
VARIABLES vectors, texts, ids, vectorizer, matrix, file, given, last, sinceReset,
          thr

vars == <<vectors, texts, ids, vectorizer, matrix, file, given, last, sinceReset,
          thr>>

Self ==
    [vectors |-> vectors, texts |-> texts, ids |-> ids,
     vectorizer |-> vectorizer, matrix |-> matrix, file |-> file]

Becomes(S) ==
    /\ vectors' = S.vectors
    /\ texts' = S.texts
    /\ ids' = S.ids
    /\ vectorizer' = S.vectorizer
    /\ matrix' = S.matrix
    /\ file' = S.file

Call(op) ==
    [op |-> op, id |-> "", existed |-> FALSE, repeat |-> FALSE,
     q |-> <<>>, k |-> 0, today |-> 0, range |-> NoRange,
     outcome |-> "ok", matches |-> <<>>, answer |-> Answer("")]

Idle ==
    [pc |-> "idle", id |-> "", metadata |-> Meta(<<>>, PyNone, PyNone, PyNone),
     qpc |-> "idle", text |-> <<>>, k |-> 0, q_vec |-> <<>>, sims |-> <<>>]

\* the store constructed on a path that holds no snapshot
Constructed ==
    /\ vectors = Construct(NoFile).vectors
    /\ texts = Construct(NoFile).texts
    /\ ids = Construct(NoFile).ids
    /\ vectorizer = Construct(NoFile).vectorizer
    /\ matrix = Construct(NoFile).matrix
    /\ file = Construct(NoFile).file
    /\ last = Call("construct")
    /\ sinceReset = {}
    /\ thr = Idle

(***************************************************************************)
(* The store, one call at a time.                                          *)
(***************************************************************************)
QueryTexts == {<<"milk">>, <<"the", "x">>}
Ks == (0 - 1)..MaxIds

Init == Constructed /\ given = <<>>

\* vdb.upsert(id, metadata); the caller's metadata is normalised in place, so
\* a second call with it passes what the first call stored
Upsert(id, metadata) ==
    /\ Becomes(upsert(Self, id, metadata))
    /\ last' = [Call("upsert") EXCEPT
                  !.id = id,
                  !.existed = DictHas(vectors, id),
                  !.repeat = (/\ last.op = "upsert" /\ last.id = id
                              /\ DictGet(vectors, id).metadata = NormalizeDate(metadata)),
                  !.outcome = IF upsertRaises(Self, id, metadata)
                              THEN "ValueError" ELSE "ok"]
    /\ sinceReset' = sinceReset \cup {id}
    /\ UNCHANGED <<given, thr>>

\* vdb.reset()
Reset ==
    /\ Becomes(reset(Self))
    /\ last' = Call("reset")
    /\ sinceReset' = {}
    /\ UNCHANGED <<given, thr>>

\* vdb.query(query_text, k)
Query(query_text, k) ==
    LET r == query(Self, query_text, k)
    IN  /\ last' = [Call("query") EXCEPT !.q = query_text, !.k = k,
                                         !.outcome = r.outcome,
                                         !.matches = r.matches]
        /\ UNCHANGED <<vectors, texts, ids, vectorizer, matrix, file, given,
                       sinceReset, thr>>

\* the process starts again: vdb = VectorStore(VSTORE_PATH)
Restart ==
    /\ Becomes(Construct(file))
    /\ last' = [Call("construct") EXCEPT
                  !.outcome = IF ConstructRaises(file) THEN "ValueError" ELSE "ok"]
    /\ sinceReset' = {file.lines[i].id : i \in 1..Len(file.lines)}
    /\ UNCHANGED <<given, thr>>

Next ==
    \/ \E id \in Ids, metadata \in Metadatas : Upsert(id, metadata)
    \/ Reset
    \/ \E query_text \in QueryTexts, k \in Ks : Query(query_text, k)
    \/ Restart

Spec == Init /\ [][Next]_vars

(***************************************************************************)
(* summarize_answer as a function of the question, the match list and the  *)
(* day: the match list is any list of up to MaxMatches stored records, in  *)
(* the shape query returns them.                                           *)
(***************************************************************************)
MaxMatches == 2

Questions ==
    { <<"milk">>,
      <<"where", "did", "i", "buy", "milk">>,
      <<"where", "did", "i", "buy", "x">>,
      <<"where", "did", "i", "buy", "bread", "on", "2024-01-05">>,
      <<"total", "expense">>,
      <<"total", "expense", "from", "2024-01-01", "to", "2024-01-05">>,
      <<"total", "expense", "on", "2024-13-01">>,
      <<"total", "expense", "yesterday">>,
      <<"total", "expense", "last", "7", "days">>,
      <<"milk", "last", "7", "days">>,
      <<"total", "milk">>,
      <<"where", "did", "i", "buy", "milk", "total", "expense">> }

Todays == {6, 11}

\* what upsert stores of Metadatas, and a record whose text has no token
StoredMetadatas ==
    {NormalizeDate(m) : m \in Metadatas}
        \cup {Meta(<<"2%">>, PyStr("M3"), PyStr("2024-01-05"), PyFloat(250))}

MatchLists ==
    UNION { [1..n -> StoredMetadatas] : n \in 0..MaxMatches }

AsMatches(ms) ==
    [i \in 1..Len(ms) |-> [id |-> IdNames[i], score |-> 0, metadata |-> ms[i]]]

InitAnswer ==
    /\ Constructed
    /\ \E ms \in MatchLists : given = AsMatches(ms)

\* summarize_answer(query, matches) on the day today; range is the start
\* and end the call has set when it filters (lines 225-236)
Summarize(q, today) ==
    /\ last' = [Call("answer") EXCEPT
                  !.q = q, !.today = today,
                  !.range = IF given = <<>> THEN NoRange ELSE DateFilter(q, today),
                  !.outcome = IF summarize_answerRaises(q, given, today)
                              THEN "ValueError" ELSE "ok",
                  !.answer = IF summarize_answerRaises(q, given, today)
                             THEN Answer("") ELSE summarize_answer(q, given, today)]
    /\ UNCHANGED <<vectors, texts, ids, vectorizer, matrix, file, given,
                   sinceReset, thr>>

NextAnswer == \E q \in Questions, today \in Todays : Summarize(q, today)

SpecAnswer == InitAnswer /\ [][NextAnswer]_vars

(***************************************************************************)
(* summarize_answer on questions that hold dates in prose, over match      *)
(* lists of priced records.                                                *)
(***************************************************************************)
DateQuestions ==
    { <<"total", "expense", "between", "1", "january", "and", "5", "january", "2024">>,
      <<"total", "expense", "between", "1", "january", "1900", "and",
        "5", "january", "1900">>,
      <<"total", "expense", "between", "29", "february", "and", "1", "march">>,
      <<"total", "expense", "between", "31", "february", "and", "5", "march",
        "yesterday">>,
      <<"total", "expense", "from", "2024-13-01", "to", "2024-01-05",
        "between", "1", "january", "and", "5", "january">>,
      <<"total", "expense", "on", "5", "january">>,
      <<"milk", "on", "2024-13-01", "or", "5", "january", "2023">>,
      <<"total", "expense", "last", "7", "days">> }

PricedMetadatas == {m \in StoredMetadatas : m.price.t = "float"}

PricedLists ==
    UNION { [1..n -> PricedMetadatas] : n \in 0..MaxMatches }

InitDates ==
    /\ Constructed
    /\ \E ms \in PricedLists : given = AsMatches(ms)

NextDates == \E q \in DateQuestions, today \in Todays : Summarize(q, today)

SpecDates == InitDates /\ [][NextDates]_vars

(***************************************************************************)
(* /qa on a store of more records than it asks query for.  The process     *)
(* starts on a snapshot of QaK - 1 records, and up to MaxNew records are   *)
(* upserted under new ids.                                                 *)
(***************************************************************************)
MaxNew == 2

QaIdNames ==
    <<"r01", "r02", "r03", "r04", "r05", "r06", "r07", "r08", "r09", "r10",
      "r11", "r12", "r13">>

NewIds == {QaIdNames[QaK - 1 + n] : n \in 1..MaxNew}

QaStored(i) ==
    IF i % 2 = 1
    THEN Meta(<<"milk">>, PyStr("M1"), PyStr("2024-01-01"), PyFloat(100))
    ELSE Meta(<<"bread">>, PyStr("M2"), PyStr("2024-01-10"), PyFloat(200))

QaSnapshot ==
    [exists |-> TRUE,
     lines |-> [i \in 1..(QaK - 1) |->
                  JsonDumps([id |-> QaIdNames[i], metadata |-> QaStored(i)])]]

QaMetadatas ==
    { Meta(<<"bread">>, PyStr("M2"), PyStr("2024-01-05"), PyFloat(500)),
      Meta(<<"the">>, PyStr("M3"), PyNone, PyNone) }

QaQuestions ==
    { <<"total", "expense", "last", "7", "days">>,
      <<"total", "expense", "bread">>,
      <<"bread", "last", "7", "days">> }

InitQa ==
    /\ vectors = Construct(QaSnapshot).vectors
    /\ texts = Construct(QaSnapshot).texts
    /\ ids = Construct(QaSnapshot).ids
    /\ vectorizer = Construct(QaSnapshot).vectorizer
    /\ matrix = Construct(QaSnapshot).matrix
    /\ file = Construct(QaSnapshot).file
    /\ last = Call("construct")
    /\ sinceReset = {QaIdNames[i] : i \in 1..(QaK - 1)}
    /\ thr = Idle
    /\ given = <<>>

\* GET /qa?q=... on the day today
Qa(q, today) ==
    /\ \E r \in {qa(Self, q, today)} :
          last' = [Call("qa") EXCEPT !.q = q, !.k = QaK, !.today = today,
                                    !.matches = r.matches, !.answer = r.answer]
    /\ UNCHANGED <<vectors, texts, ids, vectorizer, matrix, file, given,
                   sinceReset, thr>>

NextQa ==
    \/ \E id \in NewIds, metadata \in QaMetadatas : Upsert(id, metadata)
    \/ Reset
    \/ \E q \in QaQuestions, today \in Todays : Qa(q, today)

SpecQa == InitQa /\ [][NextQa]_vars

(***************************************************************************)
(* The store under concurrent requests.  The endpoints are plain functions *)
(* (main.py lines 289, 301, 308), which the server runs on worker threads, *)
(* and vector_store.py takes no lock: a mutating call and a query take     *)
(* their steps, one source line each, in any order.  The records upserted  *)
(* here all have a term, so no call raises when it runs alone.             *)
(***************************************************************************)
ConcMetadatas == {m \in Metadatas : ~FitRaises(<<m.text>>, TRUE)}

InitConc == Constructed /\ given = <<>>

Rest == <<given, sinceReset>>

\* upsert, lines 62-69
UpsertAssign(id, metadata) ==
    /\ thr.pc = "idle"
    /\ vectors' = DictSet(vectors, id, [id |-> id, metadata |-> NormalizeDate(metadata)])
    /\ thr' = [thr EXCEPT !.pc = "upsert70", !.id = id, !.metadata = metadata]
    /\ last' = [Call("upsert") EXCEPT !.id = id, !.existed = DictHas(vectors, id),
                                      !.outcome = "running"]
    /\ UNCHANGED <<texts, ids, vectorizer, matrix, file, Rest>>

\* upsert, line 70
UpsertIds ==
    /\ thr.pc = "upsert70"
    /\ ids' = DictKeys(vectors)
    /\ thr' = [thr EXCEPT !.pc = "upsert71"]
    /\ UNCHANGED <<vectors, texts, vectorizer, matrix, file, last, Rest>>

\* upsert, line 71
UpsertTexts ==
    /\ thr.pc = "upsert71"
    /\ texts' = [i \in 1..Len(ids) |-> DictGet(vectors, ids[i]).metadata.text]
    /\ thr' = [thr EXCEPT !.pc = "rebuild44"]
    /\ UNCHANGED <<vectors, ids, vectorizer, matrix, file, last, Rest>>

\* _rebuild, lines 40-44
RebuildVectorizer ==
    /\ thr.pc = "rebuild44"
    /\ IF texts = <<>>
       THEN /\ vectorizer' = NoVectorizer
            /\ matrix' = NoMatrix
            /\ thr' = [thr EXCEPT !.pc = "save"]
       ELSE /\ vectorizer' = NewVectorizer(TRUE)
            /\ matrix' = matrix
            /\ thr' = [thr EXCEPT !.pc = "rebuild45"]
    /\ UNCHANGED <<vectors, texts, ids, file, last, Rest>>

\* _rebuild, line 45
RebuildMatrix ==
    /\ thr.pc = "rebuild45"
    /\ IF FitRaises(texts, TRUE)
       THEN /\ UNCHANGED <<vectorizer, matrix>>
            /\ thr' = [thr EXCEPT !.pc = "idle"]
            /\ last' = [last EXCEPT !.outcome = "ValueError"]
       ELSE /\ vectorizer' = Fit(texts, TRUE)
            /\ matrix' = [present |-> TRUE,
                          rows |-> [i \in 1..Len(texts) |->
                                      Transform(Fit(texts, TRUE), texts[i])]]
            /\ thr' = [thr EXCEPT !.pc = "save"]
            /\ last' = last
    /\ UNCHANGED <<vectors, texts, ids, file, Rest>>

\* upsert, line 74
UpsertSave ==
    /\ thr.pc = "save"
    /\ file' = _save(Self).file
    /\ thr' = [thr EXCEPT !.pc = "idle"]
    /\ last' = [last EXCEPT !.outcome = "ok"]
    /\ UNCHANGED <<vectors, texts, ids, vectorizer, matrix, Rest>>

\* reset, line 48
ResetVectors ==
    /\ thr.pc = "idle"
    /\ vectors' = <<>>
    /\ thr' = [thr EXCEPT !.pc = "reset49"]
    /\ last' = [Call("reset") EXCEPT !.outcome = "running"]
    /\ UNCHANGED <<texts, ids, vectorizer, matrix, file, Rest>>

\* reset, lines 49-50
ResetLists ==
    /\ thr.pc = "reset49"
    /\ texts' = <<>>
    /\ ids' = <<>>
    /\ thr' = [thr EXCEPT !.pc = "reset51"]
    /\ UNCHANGED <<vectors, vectorizer, matrix, file, last, Rest>>

\* reset, lines 51-54
ResetIndex ==
    /\ thr.pc = "reset51"
    /\ vectorizer' = NoVectorizer
    /\ matrix' = NoMatrix
    /\ file' = NoFile
    /\ thr' = [thr EXCEPT !.pc = "idle"]
    /\ last' = [last EXCEPT !.outcome = "ok"]
    /\ UNCHANGED <<vectors, texts, ids, Rest>>

QueryEnds(r) ==
    /\ thr' = [thr EXCEPT !.qpc = "idle", !.q_vec = <<>>, !.sims = <<>>]
    /\ last' = [Call("query") EXCEPT !.q = thr'.text, !.k = thr'.k,
                                     !.outcome = r.outcome, !.matches = r.matches]

\* query, line 78
QueryGuard(query_text, k) ==
    /\ thr.qpc = "idle"
    /\ IF vectorizer.state = "none" \/ ~matrix.present \/ texts = <<>>
       THEN /\ thr' = [thr EXCEPT !.text = query_text, !.k = k]
            /\ last' = [Call("query") EXCEPT !.q = query_text, !.k = k]
       ELSE /\ thr' = [thr EXCEPT !.qpc = "query82", !.text = query_text, !.k = k]
            /\ last' = last
    /\ UNCHANGED <<vectors, texts, ids, vectorizer, matrix, file, Rest>>

\* query, line 82
QueryTransform ==
    /\ thr.qpc = "query82"
    /\ IF vectorizer.state = "none" THEN QueryEnds(Raised("AttributeError"))
       ELSE IF vectorizer.state = "unfitted" THEN QueryEnds(Raised("NotFittedError"))
       ELSE /\ thr' = [thr EXCEPT !.qpc = "query87",
                                  !.q_vec = Transform(vectorizer, thr.text)]
            /\ last' = last
    /\ UNCHANGED <<vectors, texts, ids, vectorizer, matrix, file, Rest>>

\* query, lines 85-93
QuerySims ==
    /\ thr.qpc = "query87"
    /\ IF ~matrix.present THEN QueryEnds(Raised("TypeError"))
       ELSE IF \E i \in 1..Len(matrix.rows) : Len(matrix.rows[i]) # Len(thr.q_vec)
       THEN QueryEnds(Raised("ValueError"))
       ELSE /\ thr' = [thr EXCEPT !.qpc = "query96",
                                  !.sims = [i \in 1..Len(matrix.rows) |->
                                              Sim(thr.q_vec, matrix.rows[i])]]
            /\ last' = last
    /\ UNCHANGED <<vectors, texts, ids, vectorizer, matrix, file, Rest>>

\* query, lines 95-104
QueryScored ==
    /\ thr.qpc = "query96"
    /\ IF Len(ids) > Len(thr.sims) THEN QueryEnds(Raised("IndexError"))
       ELSE IF \E i \in 1..Len(ids) : ~DictHas(vectors, ids[i])
       THEN QueryEnds(Raised("KeyError"))
       ELSE QueryEnds(Returned(SliceTo(SortDesc(
                [idx \in 1..Len(ids) |->
                    [id |-> ids[idx], score |-> thr.sims[idx],
                     metadata |-> DictGet(vectors, ids[idx]).metadata]]), thr.k)))
    /\ UNCHANGED <<vectors, texts, ids, vectorizer, matrix, file, Rest>>

NextConc ==
    \/ \E id \in Ids, metadata \in ConcMetadatas : UpsertAssign(id, metadata)
    \/ UpsertIds
    \/ UpsertTexts
    \/ RebuildVectorizer
    \/ RebuildMatrix
    \/ UpsertSave
    \/ ResetVectors
    \/ ResetLists
    \/ ResetIndex
    \/ \E query_text \in QueryTexts : QueryGuard(query_text, MaxIds)
    \/ QueryTransform
    \/ QuerySims
    \/ QueryScored

SpecConc == InitConc /\ [][NextConc]_vars

(***************************************************************************)
(* Properties of the store (checked under Spec).                           *)
(***************************************************************************)

\* C1: count() is the number of distinct ids upserted since the most recent
\* reset, or since the construction (counting the ids a construction read
\* from a snapshot; none on an absent snapshot): an upsert of a new id
\* raises count by exactly 1, an upsert of an existing id leaves it
\* unchanged, and reset sets it to 0.
CountIsDistinctIds ==
    [][ /\ count(Self') = Cardinality(sinceReset')
        /\ (last'.op = "upsert" /\ ~last'.existed => count(Self') = count(Self) + 1)
        /\ (last'.op = "upsert" /\ last'.existed => count(Self') = count(Self))
        /\ (last'.op = "reset" => count(Self') = 0) ]_vars

\* an existing id has been upserted again, after a reset, beside another id
CountWitness ==
    /\ last.op = "upsert" /\ last.existed
    /\ count(Self) = 2 /\ Cardinality(sinceReset) = 2

\* C2: after an upsert or a reset that returned, a store constructed on the
\* same path holds the records of the live store (same ids in the same
\* order, same metadata, same texts, same count); after reset the snapshot
\* does not exist and the constructed store is empty.
SnapshotAgrees ==
    last.op \in {"upsert", "reset"} /\ last.outcome = "ok" =>
        /\ ~ConstructRaises(file)
        /\ Construct(file).vectors = vectors
        /\ Construct(file).ids = ids
        /\ Construct(file).texts = texts
        /\ count(Construct(file)) = count(Self)
        /\ (last.op = "reset" => ~file.exists /\ count(Construct(file)) = 0)

\* the first of two records has been replaced in place and saved
SnapshotWitness ==
    /\ last.op = "upsert" /\ last.outcome = "ok" /\ last.existed
    /\ count(Self) = 2 /\ last.id = ids[1]
    /\ file.exists /\ Len(file.lines) = 2

\* C3: a second upsert(id, metadata) right after the first leaves the record
\* map, the id list, the text list, the index and the snapshot as the first
\* call left them.
UpsertIdempotent ==
    [][ last'.op = "upsert" /\ last'.repeat => Self' = Self ]_vars

\* the same (id, metadata) has been upserted twice in a row into two records
IdempotentWitness ==
    /\ last.op = "upsert" /\ last.repeat /\ last.outcome = "ok"
    /\ count(Self) = 2

\* C5: no exception escapes upsert, query, reset or count.
NoExceptionEscapes == last.outcome = "ok"

\* the cosine score query gives the record at place i of the store, from an
\* index fit on the current texts
ScoreOf(query_text, i) ==
    LET vz == Fit(texts, TRUE)
        q_vec == Transform(vz, query_text)
        d_vec == Transform(vz, texts[i])
    IN  IF Norm2(q_vec) = 0 \/ Norm2(d_vec) = 0 THEN 0 ELSE Cos2(q_vec, d_vec)

Place(id) == CHOOSE i \in 1..Len(vectors) : vectors[i].id = id

\* record i comes before record j in the ranking: higher score, or the same
\* score and an earlier place in the store
Before(query_text, i, j) ==
    \/ ScoreOf(query_text, i) > ScoreOf(query_text, j)
    \/ ScoreOf(query_text, i) = ScoreOf(query_text, j) /\ i < j

IsTopK(query_text, k, ms) ==
    /\ Len(ms) = Min(k, count(Self))
    /\ \A n \in 1..Len(ms) :
          /\ DictHas(vectors, ms[n].id)
          /\ ms[n].metadata = DictGet(vectors, ms[n].id).metadata
          /\ ms[n].score = ScoreOf(query_text, Place(ms[n].id))
          \* exactly n - 1 records come before the n-th match
          /\ Cardinality({j \in 1..Len(vectors) :
                             Before(query_text, j, Place(ms[n].id))}) = n - 1

\* C6: query(text, k) with k >= 1 on a non-empty store returns the first
\* min(k, count) records in the order of descending cosine score, records of
\* equal score in store order.
QueryReturnsTopK ==
    last.op = "query" /\ last.k >= 1 /\ count(Self) > 0 =>
        /\ last.outcome = "ok"
        /\ ~FitRaises(texts, TRUE)
        /\ IsTopK(last.q, last.k, last.matches)

\* C7: query(text, k) returns the empty list whenever k <= 0.
NonPositiveKIsEmpty ==
    last.op = "query" /\ last.k <= 0 /\ last.outcome = "ok" => last.matches = <<>>

\* C8: the date of every stored record is null or a valid ISO calendar date.
StoredDateIsIsoOrNull ==
    \A i \in 1..Len(vectors) :
        LET d == vectors[i].metadata.date
        IN  d.t = "none" \/ (d.t = "str" /\ d.s \in ValidIso)

\* C12: after the construction and after every upsert or reset, whether it
\* returned or raised, the id list has no duplicates and is as long as the
\* record map and the text list, the matrix is null exactly when the store
\* is empty and otherwise has one row per id, row i being the transform of
\* the text of the i-th id, and the vectorizer is the one fit on the current
\* texts; so no query runs against a stale or misaligned index.
IndexFreshAtBoundaries ==
    /\ Cardinality(Range(ids)) = Len(ids)
    /\ Len(ids) = Len(vectors) /\ Len(ids) = Len(texts)
    /\ \A i \in 1..Len(ids) :
          /\ DictHas(vectors, ids[i])
          /\ texts[i] = DictGet(vectors, ids[i]).metadata.text
    /\ matrix.present <=> vectors # <<>>
    /\ vectors # <<>> =>
          /\ ~FitRaises(texts, TRUE)
          /\ vectorizer = Fit(texts, TRUE)
          /\ Len(matrix.rows) = Len(ids)
          /\ \A i \in 1..Len(ids) : matrix.rows[i] = Transform(vectorizer, texts[i])

(***************************************************************************)
(* Properties of the store under concurrent requests (checked under        *)
(* SpecConc).                                                              *)
(***************************************************************************)
\* the id list, the text list and the index are those of the record map
Aligned ==
    /\ ids = DictKeys(vectors)
    /\ texts = TextsOf(vectors)
    /\ IF texts = <<>>
       THEN vectorizer = NoVectorizer /\ matrix = NoMatrix
       ELSE /\ vectorizer = Fit(texts, TRUE)
            /\ matrix.present
            /\ matrix.rows = [i \in 1..Len(texts) |-> Transform(vectorizer, texts[i])]

\* C4: a query that runs beside a mutation never observes a state in which
\* the record map, the id list, the text list and the index disagree.
QuerySeesWholeMutations == thr.qpc # "idle" => Aligned

(***************************************************************************)
(* Properties of summarize_answer (checked under SpecAnswer).              *)
(***************************************************************************)
RECURSIVE SumOver(_, _)
SumOver(f, S) ==
    IF S = {} THEN 0
    ELSE LET x == CHOOSE y \in S : TRUE IN f[x] + SumOver(f, S \ {x})

\* the matches the claim keeps: all without a date filter, else those whose
\* date is a YYYY-MM-DD date within [start, end]
Kept(ms, f) ==
    {i \in 1..Len(ms) :
        f.ok => /\ ms[i].metadata.date.t = "str"
                /\ ms[i].metadata.date.s \in ValidIso
                /\ f.start <= DayOf(ms[i].metadata.date.s)
                /\ DayOf(ms[i].metadata.date.s) <= f.end}

PriceOrZero(m) == IF m.metadata.price.t = "float" THEN m.metadata.price.n ELSE 0

\* C9: for a total-expense question without item pattern over a non-empty
\* match list, the answer is the total, to two decimals, of the prices (0
\* when missing or unparsable) of the matches dated within [start, end] when
\* a date filter is extracted, and of all matches when none is.
TotalExpenseAnswer ==
    /\ last.op = "answer" /\ given # <<>>
    /\ IsTotalQuestion(last.q) /\ ItemName(last.q) = <<>>
    =>
    LET S == SumOver([i \in 1..Len(given) |-> PriceOrZero(given[i])],
                     Kept(given, DateFilter(last.q, last.today)))
    IN  /\ last.outcome = "ok"
        /\ last.answer.kind = "total"
        /\ last.answer.amount = <<S \div 100, S % 100>>

\* the scenario of the spec: records of 2024-01-01 (10.00) and 2024-01-10
\* (5.00), total expense from 2024-01-01 to 2024-01-05, is 10.00
TotalExpenseWitness ==
    /\ last.op = "answer"
    /\ last.q = <<"total", "expense", "from", "2024-01-01", "to", "2024-01-05">>
    /\ Len(given) = 2
    /\ given[1].metadata.date = PyStr("2024-01-01")
    /\ given[2].metadata.date = PyStr("2024-01-10")
    /\ last.answer.kind = "total" /\ last.answer.amount = <<10, 0>>

\* the n-th of a set of places, in rising order
Nth(S, n) == CHOOSE i \in S : Cardinality({j \in S : j < i}) = n - 1

\* C11: for a question without item pattern and without both "total" and
\* "expense": an empty match list gives the "no matching items" answer;
\* otherwise, when some match passes the date filter, the answer lists the
\* text of every such match exactly once, in the order of the match list;
\* and when none passes, the answer is "No purchases found".
ListingAnswer ==
    /\ last.op = "answer"
    /\ ItemName(last.q) = <<>> /\ ~IsTotalQuestion(last.q)
    =>
    LET kept == Kept(given, DateFilter(last.q, last.today))
    IN  /\ last.outcome = "ok"
        /\ IF given = <<>> THEN last.answer.kind = "no_matching_items"
           ELSE IF kept = {} THEN last.answer.kind = "no_purchases"
           ELSE /\ last.answer.kind = "listing"
                /\ Len(last.answer.texts) = Cardinality(kept)
                /\ \A n \in 1..Cardinality(kept) :
                      last.answer.texts[n] = given[Nth(kept, n)].metadata.text

\* "milk last 7 days" asked on 2024-01-11 of a record of 2024-01-01 and a
\* record of 2024-01-10 lists the second alone
ListingWitness ==
    /\ last.op = "answer" /\ last.today = 11
    /\ last.q = <<"milk", "last", "7", "days">>
    /\ Len(given) = 2
    /\ given[1].metadata.date = PyStr("2024-01-01")
    /\ given[2].metadata.date = PyStr("2024-01-10")
    /\ last.answer.kind = "listing"
    /\ last.answer.texts = <<given[2].metadata.text>>

\* the calendar date of day d of the month named w in year y, when there is
\* one
CalendarDay(d, w, y) ==
    IF IsMonth(w) /\ d >= 1 /\ d <= DaysInMonth(y, MonthOf(w))
    THEN Day(DayNumber(y, MonthOf(w), d))
    ELSE NoDay

\* "D MONTH [YEAR]" at place j of the question: its length in words (0 when
\* it is not there) and its date, a missing year being the current year
ProseAt(q, j, today) ==
    LET there == j + 1 <= Len(q) /\ q[j] \in DayTokens /\ IsMonth(q[j + 1])
        stated == there /\ j + 2 <= Len(q) /\ q[j + 2] \in YearTokens
    IN  IF ~there THEN [len |-> 0, date |-> NoDay]
        ELSE [len |-> IF stated THEN 3 ELSE 2,
              date |-> CalendarDay(IntOf(q[j]), q[j + 1],
                                   IF stated THEN IntOf(q[j + 2]) ELSE YearOf(today))]

\* rule 1: the first "from YYYY-MM-DD to YYYY-MM-DD"
RuleFromTo(q) ==
    LET at == {i \in 1..Len(q) :
                 /\ i + 3 <= Len(q) /\ q[i] = "from" /\ q[i + 2] = "to"
                 /\ q[i + 1] \in IsoShaped /\ q[i + 3] \in IsoShaped}
        i == First(at)
    IN  IF at # {} /\ q[i + 1] \in ValidIso /\ q[i + 3] \in ValidIso
        THEN [ok |-> TRUE, start |-> DayOf(q[i + 1]), end |-> DayOf(q[i + 3])]
        ELSE NoRange

\* rule 2: the first "between D MONTH [YEAR] and D MONTH [YEAR]"
RuleBetween(q, today) ==
    LET at == {i \in 1..Len(q) :
                 LET p1 == ProseAt(q, i + 1, today)
                     a == i + 1 + p1.len
                 IN  /\ q[i] = "between" /\ p1.len > 0
                     /\ a <= Len(q) /\ q[a] = "and"
                     /\ ProseAt(q, a + 1, today).len > 0}
        i == First(at)
        p1 == ProseAt(q, i + 1, today)
        p2 == ProseAt(q, i + 2 + p1.len, today)
    IN  IF at # {} /\ p1.date.ok /\ p2.date.ok
        THEN [ok |-> TRUE, start |-> p1.date.day, end |-> p2.date.day]
        ELSE NoRange

\* rule 3: the first YYYY-MM-DD word, else the first "D MONTH [YEAR]"
RuleExplicit(q, today) ==
    LET iso == {i \in 1..Len(q) : q[i] \in IsoShaped}
        prose == {i \in 1..Len(q) : ProseAt(q, i, today).len > 0}
        d == ProseAt(q, First(prose), today).date
    IN  IF iso # {} /\ q[First(iso)] \in ValidIso
        THEN [ok |-> TRUE, start |-> DayOf(q[First(iso)]), end |-> DayOf(q[First(iso)])]
        ELSE IF prose # {} /\ d.ok
        THEN [ok |-> TRUE, start |-> d.day, end |-> d.day]
        ELSE NoRange

\* rules 4 and 5
RuleRelative(q, today) ==
    IF Contains(q, <<"yesterday">>)
    THEN [ok |-> TRUE, start |-> today - 1, end |-> today - 1]
    ELSE IF Contains(q, <<"last", "7", "day">>) \/ Contains(q, <<"last", "7", "days">>)
    THEN [ok |-> TRUE, start |-> today - 7, end |-> today]
    ELSE NoRange

FirstRule(q, today) ==
    IF RuleFromTo(q).ok THEN RuleFromTo(q)
    ELSE IF RuleBetween(q, today).ok THEN RuleBetween(q, today)
    ELSE IF RuleExplicit(q, today).ok THEN RuleExplicit(q, today)
    ELSE RuleRelative(q, today)

\* C13: the date filter of an answer is that of the first rule, in the
\* order "from D to D", "between D MONTH [YEAR] and D MONTH [YEAR]" (a
\* missing year is the current year, a stated year is kept), single
\* explicit date, "yesterday", "last 7 day(s)", whose pattern matches and
\* whose dates parse; a rule whose dates do not parse is skipped without
\* raising, and when no rule applies there is no filter.
FilterIsFirstRule ==
    last.op = "answer" /\ given # <<>> =>
        last.range = FirstRule(last.q, last.today)

(***************************************************************************)
(* Properties of /qa (checked under SpecQa).                               *)
(***************************************************************************)
\* the places of the store that are among the 10 first of the ranking for
\* the question: fewer than 10 records have a higher score, or the same
\* score and an earlier place
TopTenOf(sc) ==
    {i \in DOMAIN sc :
        Cardinality({j \in DOMAIN sc : sc[j] > sc[i] \/ (sc[j] = sc[i] /\ j < i)}) < 10}

TopTen(q) == TopTenOf([i \in 1..Len(vectors) |-> ScoreOf(q, i)])

\* the matches are among the places top, a total is the sum of the prices at
\* the places kept, a listing has one text for each place of kept
AnswersFrom(top, kept) ==
    /\ Len(last.matches) <= 10
    /\ \A n \in 1..Len(last.matches) : Place(last.matches[n].id) \in top
    /\ last.answer.kind = "total" =>
          last.answer.amount =
              Format2f(SumOver([i \in 1..Len(vectors) |-> PriceOrZero(vectors[i])], kept))
    /\ last.answer.kind = "listing" =>
          /\ Len(last.answer.texts) = Cardinality(kept)
          /\ \A n \in 1..Len(last.answer.texts) :
                \E i \in kept : last.answer.texts[n] = vectors[i].metadata.text

\* the places of top whose record passes the date filter of the question
KeptOf(top) == top \cap Kept(vectors, DateFilter(last.q, last.today))

AnswersFromKept(top) == AnswersFrom(top, KeptOf(top))

\* C14: /qa answers from the 10 highest-ranked records at most: its matches
\* are among them, a total is the sum of the prices of those of them that
\* pass the date filter, and a listing has one text for each of those; a
\* record ranked lower contributes to neither, whatever its date.
QaAnswersFromTopTen == last.op = "qa" => AnswersFromKept(TopTen(last.q))

\* eleven records, the last two of them bread of 2024-01-05 at 5.00; "total
\* expense last 7 days" asked on 2024-01-06 ranks it eleventh and the total
\* leaves it out, though its date is in the range
QaWitness ==
    /\ last.op = "qa" /\ last.today = 6
    /\ last.q = <<"total", "expense", "last", "7", "days">>
    /\ count(Self) = 11 /\ Len(last.matches) = 10
    /\ vectors[10].metadata.price = PyFloat(500)
    /\ vectors[11].metadata.price = PyFloat(500)
    /\ vectors[11].metadata.date = PyStr("2024-01-05")
    /\ 11 \notin TopTen(last.q)
    /\ last.answer.kind = "total"
    /\ last.answer.amount = <<10, 0>>

Terms(text) == Range(Analyze(text, FALSE))

\* C10: an item-location answer names a record only if the record passed
\* the date filter, has a merchant and shares a term with the item phrase
\* (as a candidate of similarity 0.2 or more does); a candidate that shares
\* no term with the item phrase is never named.
NamedSharesTerm ==
    last.op = "answer" /\ last.outcome = "ok" /\ last.answer.kind = "bought_from" =>
        \E i \in Kept(given, DateFilter(last.q, last.today)) :
            /\ given[i].metadata.text = last.answer.text
            /\ given[i].metadata.merchant = PyStr(last.answer.merchant)
            /\ Terms(given[i].metadata.text) \cap Terms(ItemName(last.q)) # {}

=============================================================================
